---- MODULE Spec2Model ----
(***************************************************************************)
(* Model of the set-prediction training core of SensorDropout:             *)
(*   models/matcher.py        HungarianMatcher, build_matcher              *)
(*   models/set_criterion.py  SetCriterion, build_criterion                *)
(*   train.py                 the resume / epoch / checkpoint loop of main *)
(*                                                                         *)
(* Tensors are 0-based arrays (functions on 0..n-1), as in the source.     *)
(* Real numbers are fixed point, in thousandths: probabilities, costs and  *)
(* coordinates are integers that stand for value * 1000.                   *)
(***************************************************************************)
EXTENDS Integers, FiniteSets, Sequences, TLC

VARIABLES pc, outputs, targets, matcher, criterion, indices, err,
          num_objects, idx, target_classes, target_classes_onehot,
          src_cps, target_cps, loss_center_point,
          args, epoch, best_val_loss, val_history, checkpoints, start_best

vars == <<pc, outputs, targets, matcher, criterion, indices, err,
          num_objects, idx, target_classes, target_classes_onehot,
          src_cps, target_cps, loss_center_point,
          args, epoch, best_val_loss, val_history, checkpoints, start_best>>

lossVars == <<num_objects, idx, target_classes, target_classes_onehot,
              src_cps, target_cps, loss_center_point>>

trainVars == <<args, epoch, best_val_loss, val_history, checkpoints, start_best>>

-----------------------------------------------------------------------------
(* Bounds of the checked input space.                                      *)

\* largest batch size B of the predictions, and largest number of target groups
MaxB == 2
\* largest number of query slots Q
MaxQ == 2
\* largest number of targets in the whole batch
MaxTargets == 2
\* largest number of epochs of a training run
MaxEpochs == 4

\* the classes of the class dimension of pred_logits; C is their number
Classes == {0, 1}
C == Cardinality(Classes)
\* raw class scores a slot may carry
LogitVals == {-2, 2}
\* center points (thousandths) a slot or a target may carry
Points == {<<0, 0>>, <<300, 100>>}
\* labels a target may carry: the valid ones, one negative, one too large
ValidLabels == Classes
AnyLabels == (-1) .. C
\* validation losses (thousandths) an epoch may report
ValLosses == {1, 2, 3}

-----------------------------------------------------------------------------
(* 0-based arrays.                                                         *)

Arr(n, S) == [0 .. (n - 1) -> S]

Size(a) == Cardinality(DOMAIN a)

Empty == [k \in {} |-> 0]

Cat(a, b) ==
    [k \in 0 .. (Size(a) + Size(b) - 1) |->
        IF k < Size(a) THEN a[k] ELSE b[k - Size(a)]]

\* torch.cat([f(x) for x in xs[0..n-1]])
RECURSIVE CatUpTo(_, _)
CatUpTo(parts, n) ==
    IF n = 0 THEN Empty ELSE Cat(CatUpTo(parts, n - 1), parts[n - 1])

CatAll(parts) == CatUpTo(parts, Size(parts))

RECURSIVE SumUpTo(_, _)
SumUpTo(a, n) == IF n = 0 THEN 0 ELSE SumUpTo(a, n - 1) + a[n - 1]

Sum(a) == SumUpTo(a, Size(a))

Min(a, b) == IF a <= b THEN a ELSE b

Abs(x) == IF x < 0 THEN -x ELSE x

-----------------------------------------------------------------------------
(* Fixed-point numerics (thousandths).                                     *)

\* torch.sigmoid, on the differences and values of LogitVals
SigmoidMilli(x) ==
    CASE x <= -4 -> 18
      [] x = -3 -> 47
      [] x = -2 -> 119
      [] x = -1 -> 269
      [] x = 0 -> 500
      [] x = 1 -> 731
      [] x = 2 -> 881
      [] x = 3 -> 953
      [] OTHER -> 982

\* -log(p + 1e-8), on the values SigmoidMilli takes and their complements
NegLogMilli(p) ==
    CASE p = 18 -> 4018
      [] p = 47 -> 3058
      [] p = 119 -> 2127
      [] p = 269 -> 1313
      [] p = 500 -> 693
      [] p = 731 -> 313
      [] p = 881 -> 127
      [] p = 953 -> 48
      [] OTHER -> 18

\* x ** g
RECURSIVE PowMilli(_, _)
PowMilli(x, g) == IF g = 0 THEN 1000 ELSE (PowMilli(x, g - 1) * x) \div 1000

\* softmax(-1) of a row of logits over a class dimension of two classes:
\* exp(a) / (exp(a) + exp(b)) = sigmoid(a - b)
SoftmaxMilli(row, c) ==
    LET o == CHOOSE d \in DOMAIN row : d # c
    IN  SigmoidMilli(row[c] - row[o])

\* torch.cdist(..., p=1) entry: L1 distance of two 2-D points
L1(p, q) == Abs(p[1] - q[1]) + Abs(p[2] - q[2])

-----------------------------------------------------------------------------
(* models/matcher.py                                                       *)

\* the value of `matcher` before any HungarianMatcher was constructed
NoMatcher ==
    [focal_loss |-> FALSE, cost_class |-> 0, cost_center_point |-> 0,
     focal_alpha |-> 0, focal_gamma |-> 0]

\* HungarianMatcher.__init__: the fields it sets (focal_alpha = 0.25, focal_gamma = 2.0)
HungarianMatcherFields(focal, cc, ccp) ==
    [focal_loss |-> focal, cost_class |-> cc, cost_center_point |-> ccp,
     focal_alpha |-> 250, focal_gamma |-> 2]

\* assert cost_class != 0 or cost_center_point != 0
HungarianMatcherAssert(cc, ccp) == cc # 0 \/ ccp # 0

batch_size(o) == Size(o.pred_logits)

num_queries(o) == Size(o.pred_logits[0])

\* outputs["pred_logits"].flatten(0, 1).sigmoid() / .softmax(-1)
out_prob(m, o) ==
    LET Q == num_queries(o)
    IN  [r \in 0 .. (batch_size(o) * Q - 1) |->
            LET row == o.pred_logits[r \div Q][r % Q]
            IN  [c \in DOMAIN row |->
                    IF m.focal_loss THEN SigmoidMilli(row[c])
                                    ELSE SoftmaxMilli(row, c)]]

\* outputs["pred_center_points"].flatten(0, 1)
out_center_points(o) ==
    LET Q == num_queries(o)
    IN  [r \in 0 .. (batch_size(o) * Q - 1) |->
            o.pred_center_points[r \div Q][r % Q]]

\* torch.cat([v["labels"] for v in targets])
tgt_ids(t) == CatAll([i \in DOMAIN t |-> t[i].labels])

\* torch.cat([v["center_points"] for v in targets])
tgt_center_points(t) == CatAll([i \in DOMAIN t |-> t[i].center_points])

\* x[:, tgt_ids]: an index tensor may hold -n .. n-1; a negative index counts
\* from the end; anything else raises IndexError
ColumnIndexOK(l, n) == l \in (-n) .. (n - 1)

ColumnOf(l, n) == IF l < 0 THEN l + n ELSE l

neg_cost_class(m, p) ==
    ((1000 - m.focal_alpha)
        * ((PowMilli(p, m.focal_gamma) * NegLogMilli(1000 - p)) \div 1000)) \div 1000

pos_cost_class(m, p) ==
    (m.focal_alpha
        * ((PowMilli(1000 - p, m.focal_gamma) * NegLogMilli(p)) \div 1000)) \div 1000

\* cost_class[r, j], for both modes
cost_class(m, o, t) ==
    LET prob == out_prob(m, o)
        ids == tgt_ids(t)
    IN  [r \in DOMAIN prob |->
            [j \in DOMAIN ids |->
                LET p == prob[r][ColumnOf(ids[j], C)]
                IN  IF m.focal_loss
                    THEN pos_cost_class(m, p) - neg_cost_class(m, p)
                    ELSE -p]]

\* torch.cdist(out_center_points, tgt_center_points, p=1)
cost_center_points(o, t) ==
    LET src == out_center_points(o)
        tgt == tgt_center_points(t)
    IN  [r \in DOMAIN src |-> [j \in DOMAIN tgt |-> L1(src[r], tgt[j])]]

\* self.cost_class * cost_class + self.cost_center_point * cost_center_points
cost_matrix(m, o, t) ==
    LET cls == cost_class(m, o, t)
        cps == cost_center_points(o, t)
    IN  [r \in DOMAIN cls |->
            [j \in DOMAIN cls[r] |->
                m.cost_class * cls[r][j] + m.cost_center_point * cps[r][j]]]

\* cost_matrix.view(batch_size, num_queries, -1)
view(flat, B, Q) ==
    [b \in 0 .. (B - 1) |-> [q \in 0 .. (Q - 1) |-> flat[b * Q + q]]]

\* sizes = [len(v["labels"]) for v in targets]
sizes(t) == [i \in DOMAIN t |-> Size(t[i].labels)]

\* first column of the i-th chunk of split(sizes, -1)
split_offset(sz, i) == SumUpTo(sz, i)

\* split left out: every chunk is the whole matrix
split_whole(v, sz, i) == v

\* the i-th chunk of cost_matrix.split(sizes, -1): all batch rows, the columns
\* of target group i
split(v, sz, i) ==
    [b \in DOMAIN v |->
        [q \in DOMAIN v[b] |->
            [j \in 0 .. (sz[i] - 1) |-> v[b][q][split_offset(sz, i) + j]]]]

\* c[i]: the rows of batch element i; i must be a batch index
chunk_row_ok(v, i) == i \in DOMAIN v

\* c[0] for c[i]: every chunk is read at the first batch element
c_i_first(v, sz, i) == split(v, sz, i)[0]

c_i(v, sz, i) == split(v, sz, i)[i]

\* the assignments of a nr x nc cost matrix that scipy's linear_sum_assignment
\* ranges over: min(nr, nc) pairs, row indices sorted, no row or column twice
Assignments(nr, nc) ==
    LET k == Min(nr, nc)
    IN  {a \in [rows : Arr(k, 0 .. (nr - 1)), cols : Arr(k, 0 .. (nc - 1))] :
            /\ \A x, y \in 0 .. (k - 1) : x < y => a.rows[x] < a.rows[y]
            /\ \A x, y \in 0 .. (k - 1) : x # y => a.cols[x] # a.cols[y]}

AssignmentCost(M, a) == Sum([k \in DOMAIN a.rows |-> M[a.rows[k]][a.cols[k]]])

\* linear_sum_assignment(M): an assignment of minimum total cost (which of
\* several minima is returned is left open)
linear_sum_assignment(M) ==
    LET nr == Size(M)
        nc == IF nr = 0 THEN 0 ELSE Size(M[0])
    IN  {a \in Assignments(nr, nc) :
            \A other \in Assignments(nr, nc) :
                AssignmentCost(M, a) <= AssignmentCost(M, other)}

\* the error HungarianMatcher.forward raises, "" when it returns
HungarianMatcherError(m, o, t) ==
    IF \E j \in DOMAIN tgt_ids(t) : ~ColumnIndexOK(tgt_ids(t)[j], C)
    THEN "IndexError: index out of range (tgt_ids)"
    ELSE IF \E i \in DOMAIN t : ~chunk_row_ok(o.pred_logits, i)
    THEN "IndexError: index out of range (c[i])"
    ELSE ""

\* the lists HungarianMatcher.forward may return: one (rows, cols) per target group
HungarianMatcherForward(m, o, t) ==
    LET B == batch_size(o)
        Q == num_queries(o)
        v == view(cost_matrix(m, o, t), B, Q)
        sz == sizes(t)
        opt(i) == linear_sum_assignment(c_i(v, sz, i))
    IN  {ind \in [DOMAIN t -> UNION {opt(i) : i \in DOMAIN t}] :
            \A i \in DOMAIN t : ind[i] \in opt(i)}

\* build_matcher(args)
build_matcher(a) == HungarianMatcherFields(a.focal_loss, 2, 5)

-----------------------------------------------------------------------------
(* models/set_criterion.py                                                 *)

\* SetCriterion.__init__: the fields it sets
SetCriterionFields(nc, alpha, gamma, wd) ==
    [num_classes |-> nc, focal_alpha |-> alpha, focal_gamma |-> gamma,
     weight_dict |-> wd]

NoIdx == [batch_idx |-> Empty, src_idx |-> Empty]

\* number of (targets, indices) pairs zip(targets, indices) yields
ZipLen(t, ind) == Min(Size(t), Size(ind))

\* batch prefix left out: every matched slot is taken to be of batch element 0
get_src_permutation_idx_nobatch(ind) ==
    [batch_idx |-> CatAll([i \in DOMAIN ind |-> [k \in DOMAIN ind[i].rows |-> 0]]),
     src_idx |-> CatAll([i \in DOMAIN ind |-> ind[i].rows])]

\* SetCriterion._get_src_permutation_idx
get_src_permutation_idx(ind) ==
    [batch_idx |-> CatAll([i \in DOMAIN ind |-> [k \in DOMAIN ind[i].rows |-> i]]),
     src_idx |-> CatAll([i \in DOMAIN ind |-> ind[i].rows])]

\* torch.cat([t["labels"][J] for t, (_, J) in zip(targets, indices)])
target_classes_o(t, ind) ==
    CatAll([i \in 0 .. (ZipLen(t, ind) - 1) |->
               [k \in DOMAIN ind[i].cols |-> t[i].labels[ind[i].cols[k]]]])

\* torch.full(src_logits.shape[:2], self.num_classes) with
\* target_classes[idx] = target_classes_o
target_classes_of(crit, o, t, ind) ==
    LET ix == get_src_permutation_idx(ind)
        tco == target_classes_o(t, ind)
    IN  [b \in DOMAIN o.pred_logits |->
            [q \in DOMAIN o.pred_logits[b] |->
                IF \E k \in DOMAIN tco : ix.batch_idx[k] = b /\ ix.src_idx[k] = q
                THEN tco[CHOOSE k \in DOMAIN tco :
                            /\ ix.batch_idx[k] = b /\ ix.src_idx[k] = q
                            /\ \A k2 \in DOMAIN tco :
                                  (ix.batch_idx[k2] = b /\ ix.src_idx[k2] = q)
                                      => k2 <= k]
                ELSE crit.num_classes]]

\* the error loss_labels_focal raises, "" when it returns: the indexed
\* assignment needs as many values as positions, and scatter_ along a dimension
\* of src_logits.shape[2] + 1 columns takes indices 0 .. src_logits.shape[2]
loss_labels_focal_error(crit, o, t, ind) ==
    LET ix == get_src_permutation_idx(ind)
        tc == target_classes_of(crit, o, t, ind)
    IN  IF \E k \in DOMAIN ix.batch_idx :
              \/ ix.batch_idx[k] \notin DOMAIN o.pred_logits
              \/ ix.src_idx[k] \notin DOMAIN o.pred_logits[0]
        THEN "IndexError: index out of range (target_classes[idx])"
        ELSE IF Size(ix.batch_idx) # Size(target_classes_o(t, ind))
        THEN "RuntimeError: shape mismatch (target_classes[idx])"
        ELSE IF \E b \in DOMAIN tc : \E q \in DOMAIN tc[b] : tc[b][q] \notin 0 .. C
        THEN "RuntimeError: index out of bounds (scatter_)"
        ELSE ""

\* zeros(B, Q, C + 1).scatter_(2, target_classes.unsqueeze(-1), 1)[:, :, :-1]
target_classes_onehot_of(crit, o, t, ind) ==
    LET tc == target_classes_of(crit, o, t, ind)
    IN  [b \in DOMAIN tc |->
            [q \in DOMAIN tc[b] |->
                [c \in 0 .. (C - 1) |-> IF tc[b][q] = c THEN 1 ELSE 0]]]

\* outputs['pred_center_points'][idx]
src_cps_of(o, ind) ==
    LET ix == get_src_permutation_idx(ind)
    IN  [k \in DOMAIN ix.batch_idx |->
            o.pred_center_points[ix.batch_idx[k]][ix.src_idx[k]]]

\* the permutation left out: the targets are taken in their stored order
target_cps_unpermuted(t, ind) ==
    CatAll([i \in 0 .. (ZipLen(t, ind) - 1) |->
               [k \in DOMAIN ind[i].cols |-> t[i].center_points[k]]])

\* torch.cat([t['center_points'][i] for t, (_, i) in zip(targets, indices)], dim=0)
target_cps_of(t, ind) ==
    CatAll([i \in 0 .. (ZipLen(t, ind) - 1) |->
               [k \in DOMAIN ind[i].cols |-> t[i].center_points[ind[i].cols[k]]]])

\* F.l1_loss(src_cps, target_cps, reduction='none').sum() / num_objects, kept as
\* the quotient num / den of a float division: 0 / 0 is nan, x / 0 is inf
loss_center_point_of(o, t, ind, n) ==
    LET src == src_cps_of(o, ind)
        tgt == target_cps_of(t, ind)
    IN  [num |-> Sum([k \in DOMAIN src |-> L1(src[k], tgt[k])]), den |-> n]

\* the number of target groups for the number of targets
num_objects_groups(t) == Size(t)

\* sum(len(t["labels"]) for t in targets)
num_objects_of(t) == Sum([i \in DOMAIN t |-> Size(t[i].labels)])

\* arguments a call of build_matcher must be given: def build_matcher(args)
build_matcher_params == 1

\* arguments build_criterion gives it: matcher = build_matcher()
build_criterion_passes == 0

\* the error build_criterion(num_classes) raises, "" when it returns
build_criterion_error ==
    IF build_criterion_passes # build_matcher_params
    THEN "TypeError: build_matcher() missing 1 required positional argument: 'args'"
    ELSE ""

\* build_criterion: the SetCriterion it returns when build_matcher returns
build_criterion(nc) ==
    SetCriterionFields(nc, 250, 2, [loss_ce |-> 2, loss_center_point |-> 5])

-----------------------------------------------------------------------------
(* The batches a call is given.                                            *)

\* rows of class scores in which one class scores high and the others low
LogitRows ==
    {row \in [Classes -> LogitVals] :
        \E k \in Classes : \A c \in Classes : (row[c] > 0) <=> (c = k)}

\* model outputs of batch size B with Q query slots
OutputsOf(B, Q) ==
    [pred_logits : Arr(B, Arr(Q, LogitRows)),
     pred_center_points : Arr(B, Arr(Q, Points))]

AllOutputs == UNION {OutputsOf(B, Q) : B \in 1 .. MaxB, Q \in 1 .. MaxQ}

\* G target groups of the given sizes, cut out of flat label and point lists
GroupsOf(sz, labels, points) ==
    [i \in DOMAIN sz |->
        [labels |-> [j \in 0 .. (sz[i] - 1) |-> labels[SumUpTo(sz, i) + j]],
         center_points |-> [j \in 0 .. (sz[i] - 1) |-> points[SumUpTo(sz, i) + j]]]]

TargetsOf(G, Labels) ==
    UNION {
        {GroupsOf(sz, l, p) : l \in Arr(Sum(sz), Labels), p \in Arr(Sum(sz), Points)} :
        sz \in {s \in Arr(G, 0 .. MaxTargets) : Sum(s) <= MaxTargets}}

\* any number of groups, any label: what HungarianMatcher.forward may be handed
AllTargets == UNION {TargetsOf(G, AnyLabels) : G \in 1 .. MaxB}

NoOutputs == [pred_logits |-> Empty, pred_center_points |-> Empty]

NoCriterion ==
    [num_classes |-> 0, focal_alpha |-> 0, focal_gamma |-> 0,
     weight_dict |-> [loss_ce |-> 0, loss_center_point |-> 0]]

NoLoss == [num |-> 0, den |-> 1]

NoArgs == [epochs |-> 0, resume |-> FALSE]

-----------------------------------------------------------------------------
(* Specification of calls of the matcher.                                  *)

Init ==
    /\ pc = "new"
    /\ outputs = NoOutputs
    /\ targets = Empty
    /\ matcher = NoMatcher
    /\ criterion = NoCriterion
    /\ indices = Empty
    /\ err = ""
    /\ num_objects = 0
    /\ idx = NoIdx
    /\ target_classes = Empty
    /\ target_classes_onehot = Empty
    /\ src_cps = Empty
    /\ target_cps = Empty
    /\ loss_center_point = NoLoss
    /\ args = NoArgs
    /\ epoch = 0
    /\ best_val_loss = 0
    /\ val_history = << >>
    /\ checkpoints = << >>
    /\ start_best = 0

\* the cost weights a matcher is constructed with: those of build_matcher and
\* the pair the constructor rejects
CostWeights == {<<2, 5>>, <<0, 0>>}

\* HungarianMatcher(focal_loss, cost_class, cost_center_point)
HungarianMatcherInit ==
    /\ pc = "new"
    /\ \E focal \in BOOLEAN, w \in CostWeights :
        IF HungarianMatcherAssert(w[1], w[2])
        THEN /\ matcher' = HungarianMatcherFields(focal, w[1], w[2])
             /\ pc' = "ready"
             /\ err' = ""
        ELSE /\ matcher' = NoMatcher
             /\ pc' = "raised"
             /\ err' = "AssertionError: all costs cant be 0"
    /\ UNCHANGED <<outputs, targets, criterion, indices>>
    /\ UNCHANGED lossVars
    /\ UNCHANGED trainVars

\* matcher(outputs, targets): one call of HungarianMatcher.forward
MatcherCall ==
    /\ pc = "ready"
    /\ \E o \in AllOutputs, t \in AllTargets :
        /\ outputs' = o
        /\ targets' = t
        /\ LET e == HungarianMatcherError(matcher, o, t)
           IN  IF e # ""
               THEN /\ err' = e
                    /\ pc' = "raised"
                    /\ indices' = Empty
               ELSE /\ err' = ""
                    /\ pc' = "returned"
                    /\ indices' \in HungarianMatcherForward(matcher, o, t)
    /\ UNCHANGED <<matcher, criterion>>
    /\ UNCHANGED lossVars
    /\ UNCHANGED trainVars

Next == HungarianMatcherInit \/ MatcherCall

Spec == Init /\ [][Next]_vars

-----------------------------------------------------------------------------
(* Claims about HungarianMatcher.forward, checked under Spec.              *)

\* a call of the matcher has been made
Called == pc \in {"returned", "raised"} /\ outputs # NoOutputs

\* the batch of the call meets the input contract: one target group per batch
\* element, every label a class index
LabelsValid == \A i \in DOMAIN targets : \A j \in DOMAIN targets[i].labels :
                    targets[i].labels[j] \in Classes

ValidBatch == Size(targets) = batch_size(outputs) /\ LabelsValid

Injective(a) == \A x, y \in DOMAIN a : x # y => a[x] # a[y]

Range(a) == {a[k] : k \in DOMAIN a}

\* C1: for a batch that meets the input contract, forward returns, for every
\* sample b with N_b targets and Q slots, rows and cols of equal length
\* min(Q, N_b), rows within 0..Q-1, cols within 0..N_b-1, neither with a repeated
\* index; so when N_b <= Q every target is matched to one distinct slot.
C1_AssignmentValid ==
    (Called /\ ValidBatch) =>
        /\ pc = "returned"
        /\ DOMAIN indices = DOMAIN targets
        /\ \A b \in DOMAIN targets :
            LET Q == num_queries(outputs)
                N == Size(targets[b].labels)
                rows == indices[b].rows
                cols == indices[b].cols
            IN  /\ Size(rows) = Min(Q, N)
                /\ Size(cols) = Min(Q, N)
                /\ DOMAIN rows = 0 .. (Min(Q, N) - 1)
                /\ DOMAIN cols = DOMAIN rows
                /\ Range(rows) \subseteq 0 .. (Q - 1)
                /\ Range(cols) \subseteq 0 .. (N - 1)
                /\ Injective(rows)
                /\ Injective(cols)
                /\ (N <= Q => \A t \in 0 .. (N - 1) :
                        Cardinality({k \in DOMAIN cols : cols[k] = t}) = 1)

\* C1's case: a returned call on a batch of two samples, one with as many
\* targets as slots and one with fewer targets than slots
C1_Witness ==
    /\ Called /\ ValidBatch /\ pc = "returned"
    /\ batch_size(outputs) = 2
    /\ num_queries(outputs) = 2
    /\ \E b \in DOMAIN targets : Size(indices[b].rows) = 2
    /\ \E b \in DOMAIN targets : Size(targets[b].labels) < 2

\* cost(q, t) of the claim, computed on sample b alone
SampleClassCost(b, q, label) ==
    LET row == outputs.pred_logits[b][q]
    IN  IF matcher.focal_loss
        THEN pos_cost_class(matcher, SigmoidMilli(row[label]))
               - neg_cost_class(matcher, SigmoidMilli(row[label]))
        ELSE -SoftmaxMilli(row, label)

SampleCost(b, q, t) ==
    matcher.cost_class * SampleClassCost(b, q, targets[b].labels[t])
      + matcher.cost_center_point
          * L1(outputs.pred_center_points[b][q], targets[b].center_points[t])

SampleTotal(b, a) ==
    Sum([k \in DOMAIN a.rows |-> SampleCost(b, a.rows[k], a.cols[k])])

\* C2: the assignment returned for sample b has the least total of cost(q, t)
\* among all one-to-one assignments of size min(Q, N_b) between sample b's own
\* slots and sample b's own targets.
C2_AssignmentOptimal ==
    (Called /\ ValidBatch /\ pc = "returned") =>
        \A b \in DOMAIN targets :
            \A other \in Assignments(num_queries(outputs), Size(targets[b].labels)) :
                SampleTotal(b, indices[b]) <= SampleTotal(b, other)

\* C2's case: two samples with targets each, the second sample assigned
\* differently from what the first sample's slots would give
C2_Witness ==
    /\ Called /\ ValidBatch /\ pc = "returned"
    /\ batch_size(outputs) = 2
    /\ num_queries(outputs) = 2
    /\ Size(targets[0].labels) = 1
    /\ Size(targets[1].labels) = 1
    /\ indices[0].rows[0] # indices[1].rows[0]
    /\ outputs.pred_logits[0] # outputs.pred_logits[1]

\* C6: a call in which some sample has more targets than there are query slots
\* fails with an error and returns no assignment (stated on batches that meet
\* the rest of the input contract, so that no other error accounts for it).
C6_TooManyTargetsRaises ==
    (Called /\ ValidBatch
            /\ \E i \in DOMAIN targets :
                    Size(targets[i].labels) > num_queries(outputs))
        => pc = "raised"

\* C7: a call in which the number of target groups differs from the batch size
\* fails with an error; no list of another length than B is returned (stated
\* on batches whose labels are class indices).
C7_BatchMismatchRaises ==
    (Called /\ LabelsValid /\ Size(targets) # batch_size(outputs))
        => pc = "raised"

\* C8: a call, in focal or non-focal mode, in which some target label lies
\* outside 0..C-1 fails with an error and returns no assignment (stated on
\* batches with one target group per batch element).
C8_LabelOutOfRangeRaises ==
    (Called /\ Size(targets) = batch_size(outputs) /\ ~LabelsValid)
        => pc = "raised"

-----------------------------------------------------------------------------
(* Specification of calls of the criterion.                                *)

\* num_classes a criterion may be constructed with: the class dimension of the
\* logits and its neighbours
NumClassesChoices == (C - 1) .. (C + 1)

\* batches that meet the input contract for outputs o
ContractTargets(o) == TargetsOf(batch_size(o), ValidLabels)

\* the lists of assignments that are valid for outputs o and targets t
ValidIndices(o, t) ==
    LET Q == num_queries(o)
        sz == sizes(t)
    IN  {ind \in [DOMAIN t -> UNION {Assignments(Q, sz[i]) : i \in DOMAIN t}] :
            \A i \in DOMAIN t : ind[i] \in Assignments(Q, sz[i])}

\* criterion = build_criterion(args.num_classes)
BuildCriterionCall ==
    /\ pc = "new"
    /\ \E nc \in NumClassesChoices, a \in [focal_loss : BOOLEAN] :
        IF build_criterion_error # ""
        THEN /\ pc' = "build_raised"
             /\ err' = build_criterion_error
             /\ matcher' = NoMatcher
             /\ criterion' = [NoCriterion EXCEPT !.num_classes = nc]
        ELSE /\ pc' = "built"
             /\ err' = ""
             /\ matcher' = build_matcher(a)
             /\ criterion' = build_criterion(nc)
    /\ UNCHANGED <<outputs, targets, indices>>
    /\ UNCHANGED lossVars
    /\ UNCHANGED trainVars

\* SetCriterion(num_classes, HungarianMatcher(True, 2, 5), 0.25, 2, {...})
SetCriterionInit ==
    /\ pc = "new"
    /\ \E nc \in NumClassesChoices :
        /\ HungarianMatcherAssert(2, 5)
        /\ matcher' = HungarianMatcherFields(TRUE, 2, 5)
        /\ criterion' = SetCriterionFields(nc, 250, 2,
                            [loss_ce |-> 2, loss_center_point |-> 5])
    /\ pc' = "ready"
    /\ err' = ""
    /\ UNCHANGED <<outputs, targets, indices>>
    /\ UNCHANGED lossVars
    /\ UNCHANGED trainVars

\* criterion.loss_labels_focal(outputs, targets, indices, num_objects)
LossLabelsFocalCall ==
    /\ pc = "ready"
    /\ \E o \in AllOutputs :
        \E t \in ContractTargets(o) :
            \E ind \in ValidIndices(o, t) :
                /\ outputs' = o
                /\ targets' = t
                /\ indices' = ind
                /\ num_objects' = num_objects_of(t)
                /\ idx' = get_src_permutation_idx(ind)
                /\ LET e == loss_labels_focal_error(criterion, o, t, ind)
                   IN  IF e # ""
                       THEN /\ err' = e
                            /\ pc' = "labels_raised"
                            /\ target_classes' = Empty
                            /\ target_classes_onehot' = Empty
                       ELSE /\ err' = ""
                            /\ pc' = "labels_returned"
                            /\ target_classes' = target_classes_of(criterion, o, t, ind)
                            /\ target_classes_onehot' =
                                   target_classes_onehot_of(criterion, o, t, ind)
    /\ UNCHANGED <<matcher, criterion, src_cps, target_cps, loss_center_point>>
    /\ UNCHANGED trainVars

\* criterion.loss_center_points(outputs, targets, indices, num_objects)
LossCenterPointsCall ==
    /\ pc = "ready"
    /\ \E o \in AllOutputs :
        \E t \in ContractTargets(o) :
            \E ind \in ValidIndices(o, t) :
                /\ outputs' = o
                /\ targets' = t
                /\ indices' = ind
                /\ num_objects' = num_objects_of(t)
                /\ idx' = get_src_permutation_idx(ind)
                /\ src_cps' = src_cps_of(o, ind)
                /\ target_cps' = target_cps_of(t, ind)
                /\ loss_center_point' = loss_center_point_of(o, t, ind, num_objects_of(t))
    /\ pc' = "cp_returned"
    /\ err' = ""
    /\ UNCHANGED <<matcher, criterion, target_classes, target_classes_onehot>>
    /\ UNCHANGED trainVars

\* criterion(outputs, targets): one call of SetCriterion.forward
CriterionForwardCall ==
    /\ pc = "ready"
    /\ \E o \in AllOutputs :
        \E t \in ContractTargets(o) :
            /\ outputs' = o
            /\ targets' = t
            /\ IF HungarianMatcherError(matcher, o, t) # ""
               THEN /\ err' = HungarianMatcherError(matcher, o, t)
                    /\ pc' = "forward_raised"
                    /\ indices' = Empty
                    /\ UNCHANGED lossVars
               ELSE \E ind \in HungarianMatcherForward(matcher, o, t) :
                    /\ indices' = ind
                    /\ num_objects' = num_objects_of(t)
                    /\ idx' = get_src_permutation_idx(ind)
                    /\ LET e == loss_labels_focal_error(criterion, o, t, ind)
                       IN  IF e # ""
                           THEN /\ err' = e
                                /\ pc' = "forward_raised"
                                /\ target_classes' = Empty
                                /\ target_classes_onehot' = Empty
                                /\ UNCHANGED <<src_cps, target_cps, loss_center_point>>
                           ELSE /\ err' = ""
                                /\ pc' = "forward_returned"
                                /\ target_classes' =
                                       target_classes_of(criterion, o, t, ind)
                                /\ target_classes_onehot' =
                                       target_classes_onehot_of(criterion, o, t, ind)
                                /\ src_cps' = src_cps_of(o, ind)
                                /\ target_cps' = target_cps_of(t, ind)
                                /\ loss_center_point' =
                                       loss_center_point_of(o, t, ind, num_objects_of(t))
    /\ UNCHANGED <<matcher, criterion>>
    /\ UNCHANGED trainVars

NextCriterion ==
    \/ BuildCriterionCall
    \/ SetCriterionInit
    \/ LossLabelsFocalCall
    \/ LossCenterPointsCall
    \/ CriterionForwardCall

SpecCriterion == Init /\ [][NextCriterion]_vars

-----------------------------------------------------------------------------
(* train.py: main, from the resume block to the end of the epoch loop.     *)

\* float('inf')
Inf == 1000 * 1000

\* what test_stats.get("loss", float("inf")) may be
EpochLosses == ValLosses \cup {Inf}

\* the checkpoint files --resume may name: the epoch and best_val_loss they hold
ResumeCheckpoints ==
    [epoch : 0 .. (MaxEpochs - 1), best_val_loss : EpochLosses]

InitTrain ==
    /\ pc = "main"
    /\ outputs = NoOutputs
    /\ targets = Empty
    /\ matcher = NoMatcher
    /\ criterion = NoCriterion
    /\ indices = Empty
    /\ err = ""
    /\ num_objects = 0
    /\ idx = NoIdx
    /\ target_classes = Empty
    /\ target_classes_onehot = Empty
    /\ src_cps = Empty
    /\ target_cps = Empty
    /\ loss_center_point = NoLoss
    /\ args \in [epochs : 1 .. MaxEpochs, resume : BOOLEAN]
    /\ epoch = 0
    /\ best_val_loss = Inf
    /\ val_history = << >>
    /\ checkpoints = << >>
    /\ start_best = Inf

\* if args.resume: ... else: start_epoch = 0; best_val_loss = float('inf')
Resume ==
    /\ pc = "main"
    /\ IF args.resume
       THEN \E checkpoint \in ResumeCheckpoints :
                /\ epoch' = checkpoint.epoch + 1
                /\ best_val_loss' = checkpoint.best_val_loss
                /\ start_best' = checkpoint.best_val_loss
       ELSE /\ epoch' = 0
            /\ best_val_loss' = Inf
            /\ start_best' = Inf
    /\ pc' = "loop"
    /\ UNCHANGED <<args, val_history, checkpoints>>
    /\ UNCHANGED <<outputs, targets, matcher, criterion, indices, err>>
    /\ UNCHANGED lossVars

\* the save condition of the loop body
SaveCondition(val_loss, best, e, a) ==
    val_loss < best \/ e % 2 = 0 \/ e + 1 = a.epochs

\* best_val_loss = val_loss, after torch.save
BestAfterSave(val_loss, best) == val_loss

\* one pass of: for epoch in range(start_epoch, args.epochs)
Epoch ==
    /\ pc = "loop"
    /\ epoch < args.epochs
    /\ \E val_loss \in EpochLosses :
        /\ val_history' = Append(val_history, val_loss)
        /\ IF SaveCondition(val_loss, best_val_loss, epoch, args)
           THEN /\ checkpoints' = Append(checkpoints,
                                    [epoch |-> epoch, best_val_loss |-> best_val_loss])
                /\ best_val_loss' = BestAfterSave(val_loss, best_val_loss)
           ELSE UNCHANGED <<checkpoints, best_val_loss>>
    /\ epoch' = epoch + 1
    /\ UNCHANGED <<pc, args, start_best>>
    /\ UNCHANGED <<outputs, targets, matcher, criterion, indices, err>>
    /\ UNCHANGED lossVars

\* after the loop: str(datetime.timedelta(...)) with `from datetime import datetime`
LoopExit ==
    /\ pc = "loop"
    /\ epoch >= args.epochs
    /\ pc' = "raised"
    /\ err' = "AttributeError: type object 'datetime.datetime' has no attribute 'timedelta'"
    /\ UNCHANGED trainVars
    /\ UNCHANGED <<outputs, targets, matcher, criterion, indices>>
    /\ UNCHANGED lossVars

NextTrain == Resume \/ Epoch \/ LoopExit

SpecTrain == InitTrain /\ [][NextTrain]_vars

-----------------------------------------------------------------------------
(* Claims about SetCriterion, checked under SpecCriterion.                 *)

\* number of pairs the assignments of the samples before b hold
PairOffset(b) == Sum([i \in 0 .. (b - 1) |-> Size(indices[i].rows)])

\* the k-th gathered prediction and the k-th gathered target are those of the
\* same sample b and the same position i of its assignment
GatherOrder ==
    /\ Size(src_cps) = PairOffset(Size(indices))
    /\ Size(target_cps) = Size(src_cps)
    /\ \A b \in DOMAIN indices : \A i \in DOMAIN indices[b].rows :
        /\ src_cps[PairOffset(b) + i]
             = outputs.pred_center_points[b][indices[b].rows[i]]
        /\ target_cps[PairOffset(b) + i]
             = targets[b].center_points[indices[b].cols[i]]

\* sum, over all samples and all matched pairs, of the L1 distance of the pair
PairedL1 ==
    Sum([b \in DOMAIN indices |->
            Sum([i \in DOMAIN indices[b].rows |->
                    L1(outputs.pred_center_points[b][indices[b].rows[i]],
                       targets[b].center_points[indices[b].cols[i]])])])

PerfectMatch ==
    \A b \in DOMAIN indices : \A i \in DOMAIN indices[b].rows :
        outputs.pred_center_points[b][indices[b].rows[i]]
            = targets[b].center_points[indices[b].cols[i]]

\* float arithmetic on a quotient: l * n = s, and l = 0; both false of nan and inf
FloatTimesEquals(l, n, s) == l.den # 0 /\ l.num * n = s * l.den

FloatIsZero(l) == l.den # 0 /\ l.num = 0

\* C3 as stated: for every valid assignment the gathers follow the pairing
\* order, loss_center_point * num_objects is the sum of the paired L1
\* distances, and the loss is 0 when every matched prediction equals its target.
C3_PairingAndLoss ==
    pc = "cp_returned" =>
        /\ GatherOrder
        /\ FloatTimesEquals(loss_center_point, num_objects, PairedL1)
        /\ (PerfectMatch => FloatIsZero(loss_center_point))

\* C3 amended: the gathers follow the pairing order for every valid
\* assignment; the two statements about the loss hold when num_objects > 0.
C3_PairingAndLossNonEmpty ==
    pc = "cp_returned" =>
        /\ GatherOrder
        /\ num_objects > 0 =>
            /\ FloatTimesEquals(loss_center_point, num_objects, PairedL1)
            /\ (PerfectMatch => FloatIsZero(loss_center_point))

\* C3's case: in the second sample of a batch the two targets are matched in
\* swapped order, their center points differ, and so do the predictions
C3_Witness ==
    /\ pc = "cp_returned"
    /\ batch_size(outputs) = 2
    /\ Size(targets[1].labels) = 2
    /\ Size(indices[1].rows) = 2
    /\ indices[1].cols[0] = 1
    /\ targets[1].center_points[0] # targets[1].center_points[1]
    /\ outputs.pred_center_points[0] # outputs.pred_center_points[1]
    /\ loss_center_point.num > 0

\* the one-hot target of slot (b, q): a single 1 at the label of the target
\* the slot is matched to, all zeros for an unmatched slot
OneHotOfAssignment ==
    /\ DOMAIN target_classes_onehot = DOMAIN outputs.pred_logits
    /\ \A b \in DOMAIN outputs.pred_logits :
        /\ DOMAIN target_classes_onehot[b] = DOMAIN outputs.pred_logits[b]
        /\ \A q \in DOMAIN outputs.pred_logits[b] :
            /\ DOMAIN target_classes_onehot[b][q] = 0 .. (C - 1)
            /\ \A c \in 0 .. (C - 1) :
                target_classes_onehot[b][q][c] =
                    IF \E i \in DOMAIN indices[b].rows :
                          /\ indices[b].rows[i] = q
                          /\ targets[b].labels[indices[b].cols[i]] = c
                    THEN 1 ELSE 0

\* C4 as stated: whatever num_classes the criterion was constructed with, the
\* one-hot target handed to the focal loss is that of the assignment.
C4_OneHotAnyNumClasses ==
    pc = "labels_returned" => OneHotOfAssignment

\* C4 amended: for a criterion constructed with num_classes equal to the class
\* dimension C of the logits, the call reaches the focal loss and the one-hot
\* target handed to it is that of the assignment.
C4_OneHotMatchingNumClasses ==
    (pc \in {"labels_returned", "labels_raised"} /\ criterion.num_classes = C) =>
        /\ pc = "labels_returned"
        /\ OneHotOfAssignment

\* C4's case: two samples, a slot of the second matched to a target of the
\* second label, and a slot left unmatched
C4_Witness ==
    /\ pc = "labels_returned"
    /\ criterion.num_classes = C
    /\ batch_size(outputs) = 2
    /\ num_queries(outputs) = 2
    /\ Size(indices[1].rows) = 1
    /\ indices[1].rows[0] = 1
    /\ targets[1].labels[indices[1].cols[0]] = 1
    /\ target_classes_onehot[1][1][1] = 1
    /\ Size(indices[0].rows) < 2

\* the targets of the batch, counted one by one
TotalTargets ==
    Cardinality({bj \in (DOMAIN targets) \X (0 .. MaxTargets) :
                    bj[2] \in DOMAIN targets[bj[1]].labels})

\* sum of the paired L1 distances of the samples that have targets
PairedL1NonEmpty ==
    Sum([b \in DOMAIN indices |->
            IF Size(targets[b].labels) = 0 THEN 0
            ELSE Sum([i \in DOMAIN indices[b].rows |->
                    L1(outputs.pred_center_points[b][indices[b].rows[i]],
                       targets[b].center_points[indices[b].cols[i]])])])

C9_BuildCriterionReturns ==
    pc \in {"built", "build_raised"} =>
        /\ pc = "built"
        /\ matcher.cost_class = 2
        /\ matcher.cost_center_point = 5
        /\ matcher.focal_loss \in BOOLEAN
        /\ criterion.focal_alpha = 250
        /\ criterion.focal_gamma = 2
        /\ criterion.weight_dict = [loss_ce |-> 2, loss_center_point |-> 5]

-----------------------------------------------------------------------------
(* Claim about the epoch loop, checked under SpecTrain.                    *)

\* least of the initial best_val_loss and the first n validation losses
RECURSIVE RunningMin(_, _, _)
RunningMin(first, losses, n) ==
    IF n = 0 THEN first ELSE Min(RunningMin(first, losses, n - 1), losses[n])

\* epoch the loop started at
StartEpoch == epoch - Len(val_history)

\* C10: after every epoch best_val_loss is the least of its initial value and
\* the validation losses of the epochs completed so far (so it never
\* increases), and every saved checkpoint holds that minimum (read in the
\* code's favour: the minimum at the time torch.save is called, before the
\* epoch's own validation loss is taken in).
C10_BestIsRunningMin ==
    pc = "loop" =>
        /\ best_val_loss = RunningMin(start_best, val_history, Len(val_history))
        /\ \A k \in DOMAIN checkpoints :
            checkpoints[k].best_val_loss =
                RunningMin(start_best, val_history,
                           checkpoints[k].epoch - StartEpoch)

====
